---- MODULE Spec2Model ----
(***************************************************************************)
(* A model of the kospiswing dashboard: the result store declared in       *)
(* supabase_schema.sql, the swing page of the Next.js frontend with the    *)
(* fetch helper it loads through, and the screening engine whose output    *)
(* the page renders.                                                       *)
(***************************************************************************)
EXTENDS Integers, Sequences, FiniteSets, TLC

VARIABLES
    reports,            \* rows of table reports
    analysis_results,   \* rows of table analysis_results
    reports_id_seq,     \* last value handed out by reports.id (BIGSERIAL)
    analysis_id_seq,    \* last value handed out by analysis_results.id
    lastWrite,          \* the last statement the store ran, when it was a submission
    phase,              \* the engine's run: idle, evaluating, aggregated, failed, returned
    universe,           \* the tickers list_universe returned
    status,             \* per ticker: pending, running, scored, skipped_<reason>
    snapOf,             \* per ticker: the snapshot it was evaluated on (0: none)
    attempts,           \* per ticker: how often its evaluation was started
    aggCount,           \* how often ranking and top-N selection ran
    topN,               \* the run's top_n
    run,                \* the ScreeningRun handed to the serializer
    response,           \* what fetch("/api/swing") settles with (kind "none": in flight)
    pc,                 \* SwingPage.load: awaiting the fetch, or settled
    loading,            \* SwingPage state: loading
    data,               \* SwingPage state: data
    tags,               \* a record's Tags string, as StockCard hands it to Tags
    emitted,            \* the tag list the classifier emitted for it, when it did
    rendered,           \* the tags the Tags component rendered, once it has
    serverTrades,       \* the ids of the trades the server holds
    nextTradeId,        \* the id the server gives the next trade it saves
    trades,             \* JournalPage state: trades (their ids)
    journalLoading,     \* JournalPage state: loading
    showForm,           \* JournalPage state: showForm
    form,               \* JournalPage state: ticker, price, qty, note
    submitting,         \* JournalPage state: submitting
    posts,              \* the POST /api/trades requests in flight
    gets,               \* the GET /api/trades requests in flight
    dels,               \* the DELETE /api/trades/{id} requests in flight
    getCount,           \* the GET requests issued so far
    opCount,            \* the saves and deletes issued so far
    lastApplied,        \* the issue number of the reload whose answer was set last
    newestApplied,      \* the highest issue number of a reload whose answer was set
    lastSaved,          \* the id of the trade of the last save reported successful
    alertMsg,           \* the last alert() the page raised ("": none yet)
    macro,              \* TopDownPage state: macro
    sectors,            \* TopDownPage state: sectors
    report,             \* TopDownPage state: report
    topdownLoading,     \* TopDownPage state: loading
    generating,         \* TopDownPage state: generating
    fetches,            \* the three requests of the initial load, by endpoint
    loadPc,             \* TopDownPage load: awaiting Promise.all, or settled
    gens,               \* the /api/report/generate requests in flight
    genCount,           \* the /api/report/generate requests issued so far
    topdownAlert        \* the last alert() the top-down page raised ("": none yet)

storeVars == <<reports, analysis_results, reports_id_seq, analysis_id_seq, lastWrite>>
engineVars == <<phase, universe, status, snapOf, attempts, aggCount, topN, run>>
pageVars == <<response, pc, loading, data>>
tagVars == <<tags, emitted, rendered>>
swingVars == <<storeVars, engineVars, pageVars>>
\* What the run and the swing page's load leave alone, and what Tags leaves alone.
journalVars == <<serverTrades, nextTradeId, trades, journalLoading, showForm, form, submitting,
                 posts, gets, dels, getCount, opCount, lastApplied, newestApplied, lastSaved,
                 alertMsg>>
topdownVars == <<macro, sectors, report, topdownLoading, generating, fetches, loadPc, gens,
                 genCount, topdownAlert>>
otherVars == <<tagVars, journalVars, topdownVars>>
exceptTagVars == <<swingVars, journalVars, topdownVars>>
exceptJournalVars == <<swingVars, tagVars, topdownVars>>
exceptTopdownVars == <<swingVars, tagVars, journalVars>>
vars == <<swingVars, tagVars, journalVars, topdownVars>>

(***************************************************************************)
(* Bounds of the model.                                                    *)
(***************************************************************************)
MaxId == 3          \* ids the two BIGSERIAL sequences hand out before the model stops
MaxContent == 2     \* distinct payloads a statement may carry
NumTickers == 4     \* tickers of the largest universe
MaxTopN == 4        \* the largest top_n a run is configured with
MaxTagLen == 4      \* characters of the longest Tags string served as is
MaxOps == 2         \* saves and deletes the user issues on the journal page
MaxGenerations == 2 \* report generations the user starts on the top-down page

(***************************************************************************)
(* The result store: supabase_schema.sql.                                  *)
(***************************************************************************)
TableNames == {"reports", "analysis_results"}
Dates == {"20260215", "20260216"}
\* report_type / result_type: TEXT NOT NULL with a default per table.
ResultTypes == {"swing", "topdown"}
Contents == 1..MaxContent

DefaultType(tbl) == IF tbl = "reports" THEN "topdown" ELSE "swing"

\* A row: id, target_date, report_type/result_type, and the payload columns
\* (content, or results_json with top_picks_json and stock_count) as one value.
Row(id, d, t, c) == [id |-> id, target_date |-> d, type |-> t, content |-> c]

\* The rows of the same key as (d, t), the columns of UNIQUE(target_date, type).
SameKey(rows, d, t) == {r \in rows : r.target_date = d /\ r.type = t}

\* Variation of UniqueViolation: the table declared without its UNIQUE constraint.
UniqueViolationNever(rows, d, t) == FALSE

\* UNIQUE(target_date, report_type) / UNIQUE(target_date, result_type): a row of
\* the key (d, t) is refused while another row holds that key.
UniqueViolation(rows, d, t) == SameKey(rows, d, t) # {}

\* INSERT INTO tbl (...) VALUES (...): the id is drawn from the sequence before the
\* constraint is checked, so a refused statement still consumes it.
InsertRows(rows, id, d, t, c) ==
    IF UniqueViolation(rows, d, t) THEN rows ELSE rows \cup {Row(id, d, t, c)}

\* INSERT ... ON CONFLICT (target_date, type) DO UPDATE SET payload = EXCLUDED.payload:
\* the statement the unique key is declared for.
UpsertRows(rows, id, d, t, c) ==
    IF UniqueViolation(rows, d, t)
    THEN {IF r \in SameKey(rows, d, t) THEN [r EXCEPT !.content = c] ELSE r : r \in rows}
    ELSE rows \cup {Row(id, d, t, c)}

\* UPDATE tbl SET target_date = d, type = t WHERE id = id: refused when another row
\* holds the new key.
UpdateKeyRows(rows, id, d, t) ==
    IF UniqueViolation({r \in rows : r.id # id}, d, t)
    THEN rows
    ELSE {IF r.id = id THEN [r EXCEPT !.target_date = d, !.type = t] ELSE r : r \in rows}

RowsOf(tbl) == IF tbl = "reports" THEN reports ELSE analysis_results
SeqOf(tbl) == IF tbl = "reports" THEN reports_id_seq ELSE analysis_id_seq

SetTable(tbl, rows, seq) ==
    /\ reports' = IF tbl = "reports" THEN rows ELSE reports
    /\ analysis_results' = IF tbl = "analysis_results" THEN rows ELSE analysis_results
    /\ reports_id_seq' = IF tbl = "reports" THEN seq ELSE reports_id_seq
    /\ analysis_id_seq' = IF tbl = "analysis_results" THEN seq ELSE analysis_id_seq

\* What lastWrite holds while the last statement was no submission.
NoSubmit == [op |-> "other", tbl |-> "reports", target_date |-> "20260215",
             type |-> "topdown", content |-> 1]

StoreInit ==
    /\ reports = {}
    /\ analysis_results = {}
    /\ reports_id_seq = 0
    /\ analysis_id_seq = 0
    /\ lastWrite = NoSubmit

\* A plain INSERT (policy "Enable insert access for all users").
Insert(tbl, d, t, c) ==
    /\ reports_id_seq + analysis_id_seq < MaxId
    /\ SetTable(tbl, InsertRows(RowsOf(tbl), SeqOf(tbl) + 1, d, t, c), SeqOf(tbl) + 1)
    /\ lastWrite' = NoSubmit

\* A result submission: the upsert on (target_date, type).
Submit(tbl, d, t, c) ==
    /\ reports_id_seq + analysis_id_seq < MaxId
    /\ SetTable(tbl, UpsertRows(RowsOf(tbl), SeqOf(tbl) + 1, d, t, c), SeqOf(tbl) + 1)
    /\ lastWrite' = [op |-> "submit", tbl |-> tbl, target_date |-> d, type |-> t, content |-> c]

\* An UPDATE of a row's key (policy "Enable update access for all users").
UpdateKey(tbl, id, d, t) ==
    /\ \E r \in RowsOf(tbl) : r.id = id /\ (r.target_date # d \/ r.type # t)
    /\ SetTable(tbl, UpdateKeyRows(RowsOf(tbl), id, d, t), SeqOf(tbl))
    /\ lastWrite' = NoSubmit

StoreNext ==
    \/ \E tbl \in TableNames, d \in Dates, c \in Contents : Insert(tbl, d, DefaultType(tbl), c)
    \/ \E tbl \in TableNames, d \in Dates, t \in ResultTypes, c \in Contents : Submit(tbl, d, t, c)
    \/ \E tbl \in TableNames, id \in 1..MaxId, d \in Dates, t \in ResultTypes : UpdateKey(tbl, id, d, t)



(***************************************************************************)
(* The screening engine behind GET /api/swing.  Units: prices in won,      *)
(* scores in tenths of a point (720 is 72.0), returns and volatility bands *)
(* in tenths of a percent (80 is 8.0%), the daily return in hundredths of  *)
(* a percent.                                                              *)
(***************************************************************************)
Tickers == 1..NumTickers

Factors == {"supply", "momentum", "oscillator", "volume", "volatility", "fundamental"}

\* The fixed factor weights, in percent; they sum to 100.
Weights == [supply |-> 25, momentum |-> 20, oscillator |-> 15, volume |-> 15,
            volatility |-> 10, fundamental |-> 15]

\* A stock with fewer valid factors than this is skipped.
MinValidFactors == 3
\* Bounds of the stop and target bands.
MinBand == 10
MaxStopBand == 100
MaxTargetBand == 200

AllScores(v) == [f \in Factors |-> v]

\* The market snapshots a ticker's evaluation may be handed: each the current and
\* prior-close price, the factor results (validity and normalized score) and the
\* volatility factor's raw value.
Snapshots == <<
    \* every factor valid, score 72, a 5% volatility band, up on the day
    [price |-> 50000, prev |-> 49000, valid |-> Factors, score |-> AllScores(72), vol |-> 50],
    \* the same factors, down on the day
    [price |-> 30000, prev |-> 30300, valid |-> Factors, score |-> AllScores(72), vol |-> 250],
    \* exactly the minimum of valid factors, volatility not among them
    [price |-> 1200, prev |-> 1200, valid |-> {"supply", "momentum", "volume"},
     score |-> [AllScores(0) EXCEPT !["supply"] = 100, !["momentum"] = 40, !["volume"] = 10],
     vol |-> 0],
    \* too few valid factors
    [price |-> 8000, prev |-> 7900, valid |-> {"supply", "volatility"},
     score |-> AllScores(90), vol |-> 30]
>>

SnapshotIds == 1..Len(Snapshots)

Min(a, b) == IF a < b THEN a ELSE b
Max(a, b) == IF a > b THEN a ELSE b
Clamp(x, lo, hi) == Max(lo, Min(hi, x))

\* The sum of the weights of the factors S, and of their weighted scores.
RECURSIVE WeightSum(_)
WeightSum(S) ==
    IF S = {} THEN 0
    ELSE LET f == CHOOSE x \in S : TRUE IN Weights[f] + WeightSum(S \ {f})

RECURSIVE WeightedSum(_, _)
WeightedSum(score, S) ==
    IF S = {} THEN 0
    ELSE LET f == CHOOSE x \in S : TRUE IN Weights[f] * score[f] + WeightedSum(score, S \ {f})

\* The daily return in hundredths of a percent, from the current and prior price.
DailyReturn(snap) == ((snap.price - snap.prev) * 10000) \div snap.prev

HasMinFactors(snap) == Cardinality(snap.valid) >= MinValidFactors

\* The weighted average of the valid factor scores, the weights renormalized over
\* the valid subset, rounded to one decimal and clamped to [0, 100].
CompositeScore(snap) ==
    LET num == WeightedSum(snap.score, snap.valid)
        den == WeightSum(snap.valid)
    IN  Clamp((20 * num + den) \div (2 * den), 0, 1000)

VolatilityValid(snap) == "volatility" \in snap.valid

\* The stop band scales with volatility and is bounded.
StopReturn(snap) == Clamp(snap.vol, MinBand, MaxStopBand)

\* The target band grows with the score and the volatility band and is capped.
TargetReturn(snap) ==
    Clamp((snap.vol * (1200 + CompositeScore(snap))) \div 1200, MinBand, MaxTargetBand)

\* An optional value: <<>> when omitted, <<v>> when present.
None == <<>>
Some(v) == <<v>>

TargetPrice(snap) ==
    IF VolatilityValid(snap)
    THEN Some((snap.price * (1000 + TargetReturn(snap))) \div 1000)
    ELSE None

\* Variation of StopLossPrice: a default of 0 where volatility is invalid.
StopLossPriceDefaulted(snap) ==
    IF VolatilityValid(snap)
    THEN Some((snap.price * (1000 - StopReturn(snap))) \div 1000)
    ELSE Some(0)

StopLossPrice(snap) ==
    IF VolatilityValid(snap)
    THEN Some((snap.price * (1000 - StopReturn(snap))) \div 1000)
    ELSE None

\* The ScoredStock record of ticker t evaluated on snapshot snap.
ScoredStock(t, snap) ==
    [ticker |-> t,
     price |-> snap.price,
     changePct |-> DailyReturn(snap),
     score |-> Some(CompositeScore(snap)),
     target |-> TargetPrice(snap),
     stop |-> StopLossPrice(snap),
     targetRet |-> IF VolatilityValid(snap) THEN Some(TargetReturn(snap)) ELSE None,
     stopRet |-> IF VolatilityValid(snap) THEN Some(0 - StopReturn(snap)) ELSE None]

\* The ScoredStock records by ticker and snapshot.
StockOf == [t \in Tickers, p \in SnapshotIds |-> ScoredStock(t, Snapshots[p])]

\* The ranking order: score descending, then daily return descending, then ticker
\* ascending.
Precedes(a, b) ==
    \/ a.score[1] > b.score[1]
    \/ a.score[1] = b.score[1] /\ a.changePct > b.changePct
    \/ a.score[1] = b.score[1] /\ a.changePct = b.changePct /\ a.ticker < b.ticker

\* The records of S in ranking order: the one at position i has i - 1 records
\* placed before it.
Rank(S) ==
    [i \in 1..Cardinality(S) |->
        CHOOSE a \in S : Cardinality({b \in S : Precedes(b, a)}) = i - 1]

\* The first n elements of a sequence (all of it when it is shorter).
Take(seq, n) == SubSeq(seq, 1, Min(n, Len(seq)))


(***************************************************************************)
(* The run of the engine: list the universe, evaluate each ticker          *)
(* independently, then rank and select once.                               *)
(***************************************************************************)
Absent == "<absent>"        \* a field the record does not carry

EmptyRun(err) == [data |-> <<>>, top_picks |-> <<>>, skipped |-> 0, error |-> err]

Finished(t) == status[t] \notin {"pending", "running"}
Skipped(t) == status[t] \in {"skipped_data", "skipped_factors", "skipped_timeout"}
\* Variation of AllFinished: a ticker still running does not hold the barrier.
NonePending == \A t \in universe : status[t] # "pending"

\* The barrier before aggregation: every ticker of the universe has finished.
AllFinished == \A t \in universe : Finished(t)

\* Variation of EvalOutcome: a stock is scored however few factors are valid.
EvalOutcomeAlwaysScored(snap) == "scored"

\* What evaluating a snapshot ends in: a score, or a skip for too few valid factors.
EvalOutcome(snap) == IF HasMinFactors(snap) THEN "scored" ELSE "skipped_factors"

\* The ScreeningRun of the finished evaluations: the scored stocks ranked, the
\* leading n of them, the count of skipped tickers, and the error of a run that
\* produced nothing.
Materialize(n) ==
    LET scored == {StockOf[t, snapOf[t]] : t \in {u \in universe : status[u] = "scored"}}
        ranked == Rank(scored)
    IN  [data |-> ranked,
         top_picks |-> Take(ranked, n),
         skipped |-> Cardinality({t \in universe : Skipped(t)}),
         error |-> IF scored = {} THEN "no tickers could be evaluated" ELSE Absent]

\* list_universe(as_of_date) returns the tickers 1..k.
ListUniverse(k) ==
    /\ phase = "idle"
    /\ response.kind = "none"
    /\ phase' = "evaluating"
    /\ universe' = 1..k
    /\ status' = [t \in 1..k |-> "pending"]
    /\ snapOf' = [t \in 1..k |-> 0]
    /\ attempts' = [t \in 1..k |-> 0]
    /\ UNCHANGED <<aggCount, topN, run, pageVars, storeVars, otherVars>>

\* list_universe fails: a RunFailure, returned as an empty run with an error.
ListUniverseFails ==
    /\ phase = "idle"
    /\ response.kind = "none"
    /\ phase' = "failed"
    /\ run' = EmptyRun("universe listing failed")
    /\ UNCHANGED <<universe, status, snapOf, attempts, aggCount, topN, pageVars, storeVars, otherVars>>

\* A worker takes up ticker t.
Dispatch(t) ==
    /\ phase = "evaluating"
    /\ status[t] = "pending"
    /\ status' = [status EXCEPT ![t] = "running"]
    /\ attempts' = [attempts EXCEPT ![t] = @ + 1]
    /\ UNCHANGED <<phase, universe, snapOf, aggCount, topN, run, pageVars, storeVars, otherVars>>

\* get_snapshot(t) returns snapshot p and the ticker is scored or skipped.
Evaluate(t, p) ==
    /\ phase = "evaluating"
    /\ status[t] = "running"
    /\ status' = [status EXCEPT ![t] = EvalOutcome(Snapshots[p])]
    /\ snapOf' = [snapOf EXCEPT ![t] = p]
    /\ UNCHANGED <<phase, universe, attempts, aggCount, topN, run, pageVars, storeVars, otherVars>>

\* get_snapshot(t) fails (DataUnavailable): the ticker is skipped, not retried.
SnapshotFails(t) ==
    /\ phase = "evaluating"
    /\ status[t] = "running"
    /\ status' = [status EXCEPT ![t] = "skipped_data"]
    /\ UNCHANGED <<phase, universe, snapOf, attempts, aggCount, topN, run, pageVars, storeVars, otherVars>>

\* The per-ticker timeout ends the wait for get_snapshot(t).
TickerTimeout(t) ==
    /\ phase = "evaluating"
    /\ status[t] = "running"
    /\ status' = [status EXCEPT ![t] = "skipped_timeout"]
    /\ UNCHANGED <<phase, universe, snapOf, attempts, aggCount, topN, run, pageVars, storeVars, otherVars>>

\* The run's wall-clock budget is exceeded: what has not finished is given up.
BudgetExceeded ==
    /\ phase = "evaluating"
    /\ ~AllFinished
    /\ status' = [t \in universe |-> IF Finished(t) THEN status[t] ELSE "skipped_timeout"]
    /\ UNCHANGED <<phase, universe, snapOf, attempts, aggCount, topN, run, pageVars, storeVars, otherVars>>

\* The aggregation: ranking and top-n selection, once every ticker has finished.
Aggregate(n) ==
    /\ phase = "evaluating"
    /\ AllFinished
    /\ phase' = "aggregated"
    /\ aggCount' = aggCount + 1
    /\ topN' = n
    /\ run' = Materialize(n)
    /\ UNCHANGED <<universe, status, snapOf, attempts, pageVars, storeVars, otherVars>>

\* The serialized ScreeningRun: data, top3 and, for a run without results, error.
Serialize(r) == [data |-> r.data, top3 |-> r.top_picks, error |-> r.error]

\* GET /api/swing answers 200 with the serialized run.
Respond ==
    /\ phase \in {"aggregated", "failed"}
    /\ response.kind = "none"
    /\ phase' = "returned"
    /\ response' = [kind |-> "ok", ok |-> TRUE, body |-> Serialize(run)]
    /\ UNCHANGED <<universe, status, snapOf, attempts, aggCount, topN, run, pc, loading, data, storeVars, otherVars>>

(***************************************************************************)
(* The frontend: lib/api fetchAPI and app/swing/page.tsx.                  *)
(***************************************************************************)
\* useState<SwingData | null>(null)
NullData == [present |-> FALSE, data |-> <<>>, top3 |-> <<>>, error |-> Absent]
SwingData(body) == [present |-> TRUE, data |-> body.data, top3 |-> body.top3, error |-> body.error]

NoResponse == [kind |-> "none", ok |-> FALSE, body |-> Serialize(EmptyRun(Absent))]

\* The request fails without a run: fetch rejects (kind "network_error"), or the
\* server answers with a status outside 200-299 (kind "http_error", res.ok false).
RequestFails(kind) ==
    /\ phase = "idle"
    /\ response.kind = "none"
    /\ response' = [NoResponse EXCEPT !.kind = kind]
    /\ UNCHANGED <<engineVars, pc, loading, data, storeVars, otherVars>>

\* fetchAPI: throws when fetch rejects or res.ok is false, else returns res.json().
fetchAPI(res) ==
    IF res.kind = "network_error" \/ ~res.ok
    THEN [threw |-> TRUE, value |-> NullData]
    ELSE [threw |-> FALSE, value |-> SwingData(res.body)]

\* Variation of LoadingAfterLoad: setLoading(false) in the try block only.
LoadingAfterLoadNoFinally(threw, was) == IF threw THEN was ELSE FALSE

\* load(): finally { setLoading(false) }, whether or not the fetch threw.
LoadingAfterLoad(threw, was) == FALSE

\* load() resumes after await fetchAPI: setData(res) on success, console.error in
\* the catch, setLoading(false) in the finally.
LoadSettles ==
    /\ pc = "awaiting"
    /\ response.kind # "none"
    /\ LET r == fetchAPI(response)
       IN  /\ data' = IF r.threw THEN data ELSE r.value
           /\ loading' = LoadingAfterLoad(r.threw, loading)
    /\ pc' = "settled"
    /\ UNCHANGED <<engineVars, response, storeVars, otherVars>>

\* A JavaScript value used as a condition.
Truthy(str) == str \notin {Absent, ""}

\* The position StockCard is given when none is passed (rank is undefined).
NoRank == 0 - 1
MEDALS == <<"gold", "silver", "bronze">>

\* const top3 = data?.top3 || []
top3 == IF data.present THEN data.top3 ELSE <<>>
\* const rest = data?.data?.slice(3) || []
rest == IF data.present /\ Len(data.data) > 3 THEN SubSeq(data.data, 4, Len(data.data)) ELSE <<>>

\* <StockCard stock={stock} rank={i} /> for top3[i].
Top3Rank(i) == i

\* Variation of RestRank: rank={i} passed to the cards of the rest as well.
RestRankIndex(i) == i

\* <StockCard stock={stock} /> for rest[i]: no rank.
RestRank(i) == NoRank

\* const isMedal = rank !== undefined && rank < 3
isMedal(rank) == rank # NoRank /\ rank < 3

\* Variation of StockCardScore: the stop-loss return passed as the score.
StockCardScoreWrongField(stock) == IF stock.stopRet = None THEN 0 ELSE stock.stopRet[1]

\* <ScoreBar score={stock.score || 0} />
StockCardScore(stock) == IF stock.score = None THEN 0 ELSE stock.score[1]

\* ScoreBar: width: Math.min(100, score) percent (in tenths of a percent here).
ScoreBarWidth(score) == Min(1000, score)

\* What a StockCard shows of its stock: the medal and the score bar's width.
StockCard(stock, rank) ==
    [stock |-> stock,
     medal |-> IF isMedal(rank) THEN MEDALS[rank + 1] ELSE "none",
     width |-> ScoreBarWidth(StockCardScore(stock))]

\* The cards of the page, top to bottom: the TOP 3 section, then the rest.
Cards ==
    [i \in 1..Len(top3) |-> StockCard(top3[i], Top3Rank(i - 1))]
      \o [i \in 1..Len(rest) |-> StockCard(rest[i], RestRank(i - 1))]

CardStocks == [i \in 1..Len(Cards) |-> Cards[i].stock]

\* Variation of ErrorCardShown: the card rendered for any response, {data && ...}.
ErrorCardShownForAnyData == ~loading /\ data.present

\* {data?.error && <div className="card"> ... </div>}
ErrorCardShown == ~loading /\ data.present /\ Truthy(data.error)

\* Variation of EmptyCardShown: the card rendered on {!rest.length && ...} alone.
EmptyCardShownNoRest == ~loading /\ Len(rest) = 0

\* {!top3.length && !rest.length && <div className="card"> ... </div>}
EmptyCardShown == ~loading /\ Len(top3) = 0 /\ Len(rest) = 0

(***************************************************************************)
(* Tags: the classifier's ordered tag list, the delimited string that      *)
(* carries it, and the Tags component of app/swing/page.tsx.  A string is  *)
(* the sequence of its characters.                                         *)
(***************************************************************************)
Alphabet == {"a", "b", " ", ","}
Strings(n) == UNION {[1..k -> Alphabet] : k \in 0..n}

IsSpace(c) == c = " "

\* The k-th smallest element of a set of numbers.
Kth(S, k) == CHOOSE x \in S : Cardinality({y \in S : y < x}) = k - 1

\* String.prototype.split(","): the pieces between the commas, empty ones included.
Split(str) ==
    LET cuts == {0} \cup {i \in 1..Len(str) : str[i] = ","} \cup {Len(str) + 1}
    IN  [k \in 1..(Cardinality(cuts) - 1) |->
            SubSeq(str, Kth(cuts, k) + 1, Kth(cuts, k + 1) - 1)]

\* String.prototype.trim(): without the leading and the trailing whitespace.
Trim(str) ==
    LET solid == {i \in 1..Len(str) : ~IsSpace(str[i])}
    IN  IF solid = {} THEN <<>>
        ELSE SubSeq(str, Kth(solid, 1), Kth(solid, Cardinality(solid)))

\* filter(Boolean) on strings: the empty string is dropped.
NonEmpty(str) == str # <<>>

\* Variation of TagsList: the items not trimmed.
TagsListUntrimmed(str) ==
    IF str = <<>> THEN <<>> ELSE SelectSeq(Split(str), NonEmpty)

\* Tags: null for a falsy string, else
\* tags.split(",").map((t) => t.trim()).filter(Boolean), one span per item.
TagsList(str) ==
    IF str = <<>> THEN <<>>
    ELSE SelectSeq([k \in 1..Len(Split(str)) |-> Trim(Split(str)[k])], NonEmpty)

\* The classifier's rules in priority order, each with the tag it emits.
RuleTags == << <<"a">>, <<"b", "a">>, <<"a", " ", "b">> >>
Rules == 1..Len(RuleTags)

\* The tags of the rules S that pass, in rule order.
EmitTags(S) == [k \in 1..Cardinality(S) |-> RuleTags[Kth(S, k)]]

\* The delimiters the serializer may join the tags with.
Delimiters == { <<",">>, <<",", " ">> }

\* The tag list as one delimited string.
RECURSIVE JoinTags(_, _)
JoinTags(list, delim) ==
    IF list = <<>> THEN <<>>
    ELSE IF Len(list) = 1 THEN list[1]
    ELSE list[1] \o delim \o JoinTags(Tail(list), delim)

\* A record arrives whose Tags string is str (a missing Tags: stock.Tags || "").
ReceiveTags(str) ==
    /\ rendered = None
    /\ tags = <<>>
    /\ emitted = None
    /\ str # <<>>
    /\ tags' = str
    /\ UNCHANGED <<emitted, rendered, exceptTagVars>>

\* A record arrives whose Tags string is the classifier's list for the rules S.
ClassifyTags(S, delim) ==
    /\ rendered = None
    /\ tags = <<>>
    /\ emitted = None
    /\ emitted' = Some(EmitTags(S))
    /\ tags' = JoinTags(EmitTags(S), delim)
    /\ UNCHANGED <<rendered, exceptTagVars>>

\* <Tags tags={stock.Tags || ""} />
RenderTags ==
    /\ rendered = None
    /\ rendered' = Some(TagsList(tags))
    /\ UNCHANGED <<tags, emitted, exceptTagVars>>

TagsNext ==
    \/ \E str \in Strings(MaxTagLen) : ReceiveTags(str)
    \/ \E S \in SUBSET Rules, delim \in Delimiters : ClassifyTags(S, delim)
    \/ RenderTags

(***************************************************************************)
(* The trade journal page (JournalPage) and the server behind /api/trades. *)
(* A trade is its id; a request in flight is a record of its issue number  *)
(* n and how far it got (st).                                              *)
(***************************************************************************)
FormFields == {"ticker", "price", "qty", "note"}
FieldValues == {"", "v"}
\* useState("") for ticker, price, qty and note.
EmptyForm == [f \in FormFields |-> ""]

\* if (!ticker || !price || !qty) return;
FormIncomplete(fm) == fm.ticker = "" \/ fm.price = "" \/ fm.qty = ""

\* Variation of SubmitDisabled: the button never disabled.
SubmitDisabledNever(busy) == FALSE

\* <button type="submit" disabled={submitting}>
SubmitDisabled(busy) == busy

\* Variation of FormAfterSave: the fields cleared whatever the answer.
FormAfterSaveCleared(success, fm) == EmptyForm

\* if (data.success) { setTicker(""); setPrice(""); setQty(""); setNote(""); ... }
FormAfterSave(success, fm) == IF success THEN EmptyForm ELSE fm

GetRequest(n) == [n |-> n, st |-> "sent", body |-> {}]

\* loadTrades() up to its await: one more GET /api/trades in flight.
IssueGet ==
    /\ gets' = gets \cup {GetRequest(getCount + 1)}
    /\ getCount' = getCount + 1

NoRequestInFlight == gets = {} /\ posts = {} /\ dels = {}

JournalInit ==
    /\ serverTrades = {}
    /\ nextTradeId = 1
    /\ trades = {}
    /\ journalLoading = TRUE
    /\ showForm = FALSE
    /\ form = EmptyForm
    /\ submitting = FALSE
    /\ posts = {}
    /\ gets = {GetRequest(1)}       \* useEffect: loadTrades()
    /\ dels = {}
    /\ getCount = 1
    /\ opCount = 0
    /\ lastApplied = 0
    /\ newestApplied = 0
    /\ lastSaved = 0
    /\ alertMsg = ""

\* The server answers GET /api/trades with the trades it holds.
ServeTrades(g) ==
    /\ g.st = "sent"
    /\ gets' = (gets \ {g}) \cup {[g EXCEPT !.st = "served", !.body = serverTrades]}
    /\ UNCHANGED <<serverTrades, nextTradeId, trades, journalLoading, showForm, form, submitting,
                   posts, dels, getCount, opCount, lastApplied, newestApplied, lastSaved,
                   alertMsg, exceptJournalVars>>

\* GET /api/trades fails: fetch rejects or the status is outside 200-299.
TradesRequestFails(g) ==
    /\ g.st = "sent"
    /\ gets' = (gets \ {g}) \cup {[g EXCEPT !.st = "failed"]}
    /\ UNCHANGED <<serverTrades, nextTradeId, trades, journalLoading, showForm, form, submitting,
                   posts, dels, getCount, opCount, lastApplied, newestApplied, lastSaved,
                   alertMsg, exceptJournalVars>>

\* loadTrades() resumes: setTrades(res.data || []), or console.error in the catch,
\* and setLoading(false) in the finally.
LoadTradesSettles(g) ==
    /\ g.st \in {"served", "failed"}
    /\ trades' = IF g.st = "served" THEN g.body ELSE trades
    /\ lastApplied' = IF g.st = "served" THEN g.n ELSE lastApplied
    /\ newestApplied' = IF g.st = "served" THEN Max(newestApplied, g.n) ELSE newestApplied
    /\ journalLoading' = FALSE
    /\ gets' = gets \ {g}
    /\ UNCHANGED <<serverTrades, nextTradeId, showForm, form, submitting, posts, dels, getCount,
                   opCount, lastSaved, alertMsg, exceptJournalVars>>

\* onClick={() => setShowForm(!showForm)}
ToggleForm ==
    /\ ~journalLoading
    /\ showForm' = ~showForm
    /\ UNCHANGED <<serverTrades, nextTradeId, trades, journalLoading, form, submitting, posts,
                   gets, dels, getCount, opCount, lastApplied, newestApplied, lastSaved,
                   alertMsg, exceptJournalVars>>

\* onChange of an input of the form: setTicker, setPrice, setQty, setNote.
SetField(f, v) ==
    /\ ~journalLoading
    /\ showForm
    /\ form[f] # v
    /\ form' = [form EXCEPT ![f] = v]
    /\ UNCHANGED <<serverTrades, nextTradeId, trades, journalLoading, showForm, submitting, posts,
                   gets, dels, getCount, opCount, lastApplied, newestApplied, lastSaved,
                   alertMsg, exceptJournalVars>>

\* handleSubmit up to its await: nothing for an incomplete form, else
\* setSubmitting(true) and the POST.
handleSubmit ==
    /\ ~journalLoading
    /\ showForm
    /\ ~SubmitDisabled(submitting)
    /\ opCount < MaxOps
    /\ IF FormIncomplete(form)
       THEN UNCHANGED <<submitting, posts, opCount>>
       ELSE /\ submitting' = TRUE
            /\ posts' = posts \cup {[n |-> opCount + 1, st |-> "sent", body |-> form, id |-> 0]}
            /\ opCount' = opCount + 1
    /\ UNCHANGED <<serverTrades, nextTradeId, trades, journalLoading, showForm, form, gets, dels,
                   getCount, lastApplied, newestApplied, lastSaved, alertMsg, exceptJournalVars>>

\* The server saves the trade of POST /api/trades and answers success: true.
ServerSavesTrade(p) ==
    /\ p.st = "sent"
    /\ serverTrades' = serverTrades \cup {nextTradeId}
    /\ nextTradeId' = nextTradeId + 1
    /\ posts' = (posts \ {p}) \cup {[p EXCEPT !.st = "saved", !.id = nextTradeId]}
    /\ UNCHANGED <<trades, journalLoading, showForm, form, submitting, gets, dels, getCount,
                   opCount, lastApplied, newestApplied, lastSaved, alertMsg, exceptJournalVars>>

\* The server answers success: false and saves nothing.
ServerRefusesTrade(p) ==
    /\ p.st = "sent"
    /\ posts' = (posts \ {p}) \cup {[p EXCEPT !.st = "refused"]}
    /\ UNCHANGED <<serverTrades, nextTradeId, trades, journalLoading, showForm, form, submitting,
                   gets, dels, getCount, opCount, lastApplied, newestApplied, lastSaved,
                   alertMsg, exceptJournalVars>>

\* The request or its answer is lost, or the answer is no JSON: fetch or res.json()
\* will reject.
PostFails(p) ==
    /\ p.st \in {"sent", "saved"}
    /\ posts' = (posts \ {p}) \cup {[p EXCEPT !.st = "lost"]}
    /\ UNCHANGED <<serverTrades, nextTradeId, trades, journalLoading, showForm, form, submitting,
                   gets, dels, getCount, opCount, lastApplied, newestApplied, lastSaved,
                   alertMsg, exceptJournalVars>>

\* handleSubmit resumes with data.success: the fields cleared, the form closed,
\* loadTrades(), and setSubmitting(false) in the finally.
SaveSucceeds(p) ==
    /\ p.st = "saved"
    /\ form' = FormAfterSave(TRUE, form)
    /\ showForm' = FALSE
    /\ IssueGet
    /\ submitting' = FALSE
    /\ posts' = posts \ {p}
    /\ lastSaved' = p.id
    /\ UNCHANGED <<serverTrades, nextTradeId, trades, journalLoading, dels, opCount, lastApplied,
                   newestApplied, alertMsg, exceptJournalVars>>

\* handleSubmit resumes without data.success: alert(data.error || ...), and
\* setSubmitting(false) in the finally.
SaveRefused(p) ==
    /\ p.st = "refused"
    /\ form' = FormAfterSave(FALSE, form)
    /\ alertMsg' = "save refused"
    /\ submitting' = FALSE
    /\ posts' = posts \ {p}
    /\ UNCHANGED <<serverTrades, nextTradeId, trades, journalLoading, showForm, gets, dels,
                   getCount, opCount, lastApplied, newestApplied, lastSaved, exceptJournalVars>>

\* handleSubmit resumes in its catch: alert, and setSubmitting(false) in the finally.
SaveThrows(p) ==
    /\ p.st = "lost"
    /\ form' = FormAfterSave(FALSE, form)
    /\ alertMsg' = "save error"
    /\ submitting' = FALSE
    /\ posts' = posts \ {p}
    /\ UNCHANGED <<serverTrades, nextTradeId, trades, journalLoading, showForm, gets, dels,
                   getCount, opCount, lastApplied, newestApplied, lastSaved, exceptJournalVars>>

\* handleDelete(id) up to its await: nothing unless confirmed, else the DELETE.
handleDelete(id, confirmed) ==
    /\ ~journalLoading
    /\ id \in trades
    /\ opCount < MaxOps
    /\ IF ~confirmed
       THEN UNCHANGED <<dels, opCount>>
       ELSE /\ dels' = dels \cup {[n |-> opCount + 1, id |-> id, st |-> "sent"]}
            /\ opCount' = opCount + 1
    /\ UNCHANGED <<serverTrades, nextTradeId, trades, journalLoading, showForm, form, submitting,
                   posts, gets, getCount, lastApplied, newestApplied, lastSaved, alertMsg,
                   exceptJournalVars>>

\* The server deletes the trade of DELETE /api/trades/{id} (none when it holds none).
ServerDeletesTrade(d) ==
    /\ d.st = "sent"
    /\ serverTrades' = serverTrades \ {d.id}
    /\ dels' = (dels \ {d}) \cup {[d EXCEPT !.st = "served"]}
    /\ UNCHANGED <<nextTradeId, trades, journalLoading, showForm, form, submitting, posts, gets,
                   getCount, opCount, lastApplied, newestApplied, lastSaved, alertMsg,
                   exceptJournalVars>>

\* The request or its answer is lost: fetch will reject.
DeleteFails(d) ==
    /\ d.st \in {"sent", "served"}
    /\ dels' = (dels \ {d}) \cup {[d EXCEPT !.st = "lost"]}
    /\ UNCHANGED <<serverTrades, nextTradeId, trades, journalLoading, showForm, form, submitting,
                   posts, gets, getCount, opCount, lastApplied, newestApplied, lastSaved,
                   alertMsg, exceptJournalVars>>

\* handleDelete resumes after the await, whatever the status: loadTrades().
DeleteSettles(d) ==
    /\ d.st = "served"
    /\ IssueGet
    /\ dels' = dels \ {d}
    /\ UNCHANGED <<serverTrades, nextTradeId, trades, journalLoading, showForm, form, submitting,
                   posts, opCount, lastApplied, newestApplied, lastSaved, alertMsg,
                   exceptJournalVars>>

\* handleDelete resumes in its catch: alert, no reload.
DeleteThrows(d) ==
    /\ d.st = "lost"
    /\ alertMsg' = "delete failed"
    /\ dels' = dels \ {d}
    /\ UNCHANGED <<serverTrades, nextTradeId, trades, journalLoading, showForm, form, submitting,
                   posts, gets, getCount, opCount, lastApplied, newestApplied, lastSaved,
                   exceptJournalVars>>

JournalNext ==
    \/ \E g \in gets : ServeTrades(g)
    \/ \E g \in gets : TradesRequestFails(g)
    \/ \E g \in gets : LoadTradesSettles(g)
    \/ ToggleForm
    \/ \E f \in FormFields, v \in FieldValues : SetField(f, v)
    \/ handleSubmit
    \/ \E p \in posts : ServerSavesTrade(p)
    \/ \E p \in posts : ServerRefusesTrade(p)
    \/ \E p \in posts : PostFails(p)
    \/ \E p \in posts : SaveSucceeds(p)
    \/ \E p \in posts : SaveRefused(p)
    \/ \E p \in posts : SaveThrows(p)
    \/ \E id \in trades, confirmed \in BOOLEAN : handleDelete(id, confirmed)
    \/ \E d \in dels : ServerDeletesTrade(d)
    \/ \E d \in dels : DeleteFails(d)
    \/ \E d \in dels : DeleteSettles(d)
    \/ \E d \in dels : DeleteThrows(d)

(***************************************************************************)
(* The top-down page (TopDownPage): the initial load of macro, sectors and *)
(* the latest report through Promise.all, and report generation.           *)
(***************************************************************************)
Endpoints == {"/api/macro?days=5", "/api/sectors", "/api/report/latest"}

\* useState<...>(null)
Null == "null"
NoReport == [source |-> Null, n |-> 0]
\* What load() hands to setReport, and what handleGenerate does.
LatestReport == [source |-> "latest", n |-> 0]
GeneratedReport(n) == [source |-> "just generated", n |-> n]

\* Promise.all: rejected once one request has failed, fulfilled once all succeeded.
AllRejected(fs) == \E e \in Endpoints : fs[e] = "failed"
AllFulfilled(fs) == \A e \in Endpoints : fs[e] = "ok"

\* Variation of Loaded: each answer set on its own, as after Promise.allSettled.
LoadedEach(e, fs) == fs[e] = "ok"

\* load(): the three setters run only after await Promise.all([...]) returned.
Loaded(e, fs) == AllFulfilled(fs)

\* Variation of GenerateDisabled: the button never disabled.
GenerateDisabledNever(busy) == FALSE

\* <button onClick={handleGenerate} disabled={generating}>
GenerateDisabled(busy) == busy

\* if (res.success && res.content)
GenerateOk(st) == st = "ok"

TopDownInit ==
    /\ macro = Null
    /\ sectors = Null
    /\ report = NoReport
    /\ topdownLoading = TRUE
    /\ generating = FALSE
    /\ fetches = [e \in Endpoints |-> "pending"]       \* useEffect: load()
    /\ loadPc = "awaiting"
    /\ gens = {}
    /\ genCount = 0
    /\ topdownAlert = ""

\* fetchAPI(e) returns the answer's JSON.
FetchSucceeds(e) ==
    /\ fetches[e] = "pending"
    /\ fetches' = [fetches EXCEPT ![e] = "ok"]
    /\ UNCHANGED <<macro, sectors, report, topdownLoading, generating, loadPc, gens, genCount,
                   topdownAlert, exceptTopdownVars>>

\* fetchAPI(e) throws: fetch rejects or the status is outside 200-299.
FetchFails(e) ==
    /\ fetches[e] = "pending"
    /\ fetches' = [fetches EXCEPT ![e] = "failed"]
    /\ UNCHANGED <<macro, sectors, report, topdownLoading, generating, loadPc, gens, genCount,
                   topdownAlert, exceptTopdownVars>>

\* load() resumes after await Promise.all: the three setters, or console.error in
\* the catch, and setLoading(false) in the finally.
TopDownLoadSettles ==
    /\ loadPc = "awaiting"
    /\ AllFulfilled(fetches) \/ AllRejected(fetches)
    /\ macro' = IF Loaded("/api/macro?days=5", fetches) THEN "loaded" ELSE macro
    /\ sectors' = IF Loaded("/api/sectors", fetches) THEN "loaded" ELSE sectors
    /\ report' = IF Loaded("/api/report/latest", fetches) THEN LatestReport ELSE report
    /\ topdownLoading' = FALSE
    /\ loadPc' = "settled"
    /\ UNCHANGED <<generating, fetches, gens, genCount, topdownAlert, exceptTopdownVars>>

\* handleGenerate up to its await: setGenerating(true) and the request.  The button
\* is rendered once loading is false.
handleGenerate ==
    /\ ~topdownLoading
    /\ ~GenerateDisabled(generating)
    /\ genCount < MaxGenerations
    /\ generating' = TRUE
    /\ gens' = gens \cup {[n |-> genCount + 1, st |-> "sent"]}
    /\ genCount' = genCount + 1
    /\ UNCHANGED <<macro, sectors, report, topdownLoading, fetches, loadPc, topdownAlert,
                   exceptTopdownVars>>

\* /api/report/generate is answered: with success and content ("ok"), without
\* success, without content, or not at all (fetchAPI throws).
GenerateAnswers == {"ok", "no_success", "no_content", "threw"}

GenerateAnswered(g, answer) ==
    /\ g.st = "sent"
    /\ gens' = (gens \ {g}) \cup {[g EXCEPT !.st = answer]}
    /\ UNCHANGED <<macro, sectors, report, topdownLoading, generating, fetches, loadPc, genCount,
                   topdownAlert, exceptTopdownVars>>

\* handleGenerate resumes: setReport for success with content, else an alert, and
\* setGenerating(false) in the finally.
GenerateSettles(g) ==
    /\ g.st # "sent"
    /\ report' = IF GenerateOk(g.st) THEN GeneratedReport(g.n) ELSE report
    /\ topdownAlert' = IF GenerateOk(g.st) THEN topdownAlert
                       ELSE IF g.st = "threw" THEN "generate error" ELSE "generate failed"
    /\ generating' = FALSE
    /\ gens' = gens \ {g}
    /\ UNCHANGED <<macro, sectors, topdownLoading, fetches, loadPc, genCount, exceptTopdownVars>>

TopDownNext ==
    \/ \E e \in Endpoints : FetchSucceeds(e)
    \/ \E e \in Endpoints : FetchFails(e)
    \/ TopDownLoadSettles
    \/ handleGenerate
    \/ \E g \in gens, answer \in GenerateAnswers : GenerateAnswered(g, answer)
    \/ \E g \in gens : GenerateSettles(g)

(***************************************************************************)
(* The specifications.                                                     *)
(***************************************************************************)
Init ==
    /\ StoreInit
    /\ phase = "idle"
    /\ universe = {}
    /\ status = [t \in {} |-> "pending"]
    /\ snapOf = [t \in {} |-> 0]
    /\ attempts = [t \in {} |-> 0]
    /\ aggCount = 0
    /\ topN = 3
    /\ run = EmptyRun(Absent)
    /\ response = NoResponse
    /\ pc = "awaiting"
    /\ loading = TRUE
    /\ data = NullData
    /\ tags = <<>>
    /\ emitted = None
    /\ rendered = None
    /\ JournalInit
    /\ TopDownInit

EngineNext ==
    \/ \E k \in 0..NumTickers : ListUniverse(k)
    \/ ListUniverseFails
    \/ \E t \in universe : Dispatch(t)
    \/ \E t \in universe, p \in SnapshotIds : Evaluate(t, p)
    \/ \E t \in universe : SnapshotFails(t)
    \/ \E t \in universe : TickerTimeout(t)
    \/ BudgetExceeded
    \/ \E n \in 1..MaxTopN : Aggregate(n)
    \/ Respond

HttpNext == \E kind \in {"network_error", "http_error"} : RequestFails(kind)

PageNext == LoadSettles

Next == EngineNext \/ HttpNext \/ PageNext

Spec == Init /\ [][Next]_vars

\* The engine's timeouts and budget, the transport and the page's continuation
\* each keep going while they can.
FairSpec == Spec /\ WF_vars(EngineNext) /\ WF_vars(HttpNext \/ PageNext)

StoreSpec == Init /\ [][StoreNext /\ UNCHANGED <<engineVars, pageVars, otherVars>>]_vars

TagsSpec == Init /\ [][TagsNext]_vars

JournalSpec == Init /\ [][JournalNext]_vars

TopDownSpec == Init /\ [][TopDownNext]_vars

(***************************************************************************)
(* C2: after any sequence of statements each table holds at most one row   *)
(* per (target_date, type), and right after a submission for a pair the    *)
(* table holds exactly one row of that pair, carrying the payload just     *)
(* submitted, whether or not the pair had a row before.                    *)
(***************************************************************************)
OneRowPerKey(rows) ==
    \A d \in Dates, t \in ResultTypes : Cardinality(SameKey(rows, d, t)) <= 1

C2_UpsertOverwrites ==
    /\ \A tbl \in TableNames : OneRowPerKey(RowsOf(tbl))
    /\ lastWrite.op = "submit" =>
         /\ Cardinality(SameKey(RowsOf(lastWrite.tbl), lastWrite.target_date, lastWrite.type)) = 1
         /\ \A r \in SameKey(RowsOf(lastWrite.tbl), lastWrite.target_date, lastWrite.type) :
                r.content = lastWrite.content

\* A second submission for a pair has overwritten the first: the pair's row keeps
\* the id of the first submission and carries the payload of the second.
C2_Witness ==
    /\ lastWrite.op = "submit"
    /\ lastWrite.tbl = "analysis_results"
    /\ analysis_id_seq >= 2
    /\ \E r \in analysis_results :
         /\ r.target_date = lastWrite.target_date
         /\ r.type = lastWrite.type
         /\ r.id < analysis_id_seq
         /\ r.content = lastWrite.content
         /\ r.content = 2


(***************************************************************************)
(* C1: once the page has loaded a response, top3 is the first top_n        *)
(* records of data in data order, and the stocks of the cards the page     *)
(* renders, top to bottom, are exactly the records of data in data order,  *)
(* whatever top_n the run was configured with.                             *)
(***************************************************************************)
C1_CardsAreDataForEveryTopN ==
    (pc = "settled" /\ data.present) =>
        /\ data.top3 = Take(data.data, topN)
        /\ CardStocks = data.data

(***************************************************************************)
(* C3: a response carries an error only when its data and top3 are empty,  *)
(* and whenever the page shows the error card, data and top3 are empty and *)
(* the page shows no stock card.                                           *)
(***************************************************************************)
C3_ErrorOnlyWithoutResults ==
    /\ (response.kind = "ok" /\ Truthy(response.body.error)) =>
          response.body.data = <<>> /\ response.body.top3 = <<>>
    /\ ErrorCardShown => data.data = <<>> /\ data.top3 = <<>> /\ Cards = <<>>

\* The error card is up after a run in which every ticker of a universe of two or
\* more was skipped.
C3_Witness ==
    /\ ErrorCardShown
    /\ Cardinality(universe) >= 2
    /\ \A t \in universe : Skipped(t)

(***************************************************************************)
(* C4: whenever a load has ended without results because the run or the    *)
(* request failed (the universe listing failed, no ticker was evaluated,   *)
(* the server answered with an HTTP error, fetch threw), the page shows an *)
(* error message, not only the empty-result card.                          *)
(***************************************************************************)
LoadFailed ==
    \/ response.kind \in {"network_error", "http_error"}
    \/ response.kind = "ok" /\ response.body.data = <<>>

C4_FailureNeverSilent ==
    (pc = "settled" /\ LoadFailed) => ErrorCardShown

(***************************************************************************)
(* C5: the data of a run, and the data the page holds, is ordered by the   *)
(* comparator: of two records the one placed first has the higher score,   *)
(* or the same score and the higher daily return, or both the same and the *)
(* smaller ticker.  The page's medals go by that order: the card with the  *)
(* i-th medal is one of the first three cards and shows the i-th record of *)
(* data, each of the first three top3 cards has its medal, and no other    *)
(* card has one.                                                           *)
(***************************************************************************)
Sorted(seq) == \A i, j \in 1..Len(seq) : i < j => Precedes(seq[i], seq[j])

C5_RankedAndMedalled ==
    /\ Sorted(run.data)
    /\ (pc = "settled" /\ data.present) =>
          /\ Sorted(data.data)
          /\ \A i \in 1..Len(Cards) :
                Cards[i].medal # "none" =>
                    /\ i <= 3
                    /\ i <= Len(data.data)
                    /\ Cards[i].stock = data.data[i]
                    /\ Cards[i].medal = MEDALS[i]
          /\ \A i \in 1..Min(3, Len(top3)) : Cards[i].medal = MEDALS[i]

\* The page shows four cards, three of them with medals, of a run in which a tie
\* on the score was broken by the daily return and a tie on both by the ticker.
C5_Witness ==
    /\ pc = "settled"
    /\ Len(Cards) >= 4
    /\ Cards[3].medal = "bronze"
    /\ \E i, j \in 1..Len(data.data) :
          /\ i < j
          /\ data.data[i].score = data.data[j].score
          /\ data.data[i].changePct > data.data[j].changePct
    /\ \E i, j \in 1..Len(data.data) :
          /\ i < j
          /\ data.data[i].score = data.data[j].score
          /\ data.data[i].changePct = data.data[j].changePct

(***************************************************************************)
(* C6: every record of a run's data, and of the data the page holds, has   *)
(* either both a target price and a stop-loss price, with                  *)
(* stop-loss < current price < target, or neither.                         *)
(***************************************************************************)
ParamsOk(s) ==
    \/ s.target = None /\ s.stop = None
    \/ /\ s.target # None
       /\ s.stop # None
       /\ s.stop[1] < s.price
       /\ s.price < s.target[1]

C6_StopBelowPriceBelowTarget ==
    /\ \A i \in 1..Len(run.data) : ParamsOk(run.data[i])
    /\ \A i \in 1..Len(data.data) : ParamsOk(data.data[i])

\* The page holds a record with both prices and a record with neither.
C6_Witness ==
    /\ pc = "settled"
    /\ \E i \in 1..Len(data.data) : data.data[i].target # None /\ data.data[i].stop # None
    /\ \E i \in 1..Len(data.data) : data.data[i].target = None /\ data.data[i].stop = None

(***************************************************************************)
(* C7: every record of a run's data has a score within [0, 100], every     *)
(* card the page renders has a score bar between 0% and 100% wide, and a   *)
(* record without a score gets a bar 0% wide.                              *)
(***************************************************************************)
MissingScoreStock == [StockOf[1, 1] EXCEPT !.score = None]

C7_ScoreAndBarInRange ==
    /\ \A i \in 1..Len(run.data) :
          run.data[i].score # None /\ run.data[i].score[1] \in 0..1000
    /\ \A i \in 1..Len(Cards) : Cards[i].width \in 0..1000
    /\ StockCard(MissingScoreStock, NoRank).width = 0

\* The page renders cards of different scores, each bar as wide as the score.
C7_Witness ==
    /\ pc = "settled"
    /\ Len(Cards) >= 2
    /\ Cards[1].width = 720
    /\ \E i \in 1..Len(Cards) : Cards[i].width = 575

(***************************************************************************)
(* C8: every load ends: from some point on the page is no longer loading   *)
(* and shows stock cards, the error card or the empty-result card, also    *)
(* when the run's budget is exceeded or a ticker never responds.           *)
(***************************************************************************)
C8_LoadEnds ==
    <>[](~loading /\ (Len(Cards) > 0 \/ ErrorCardShown \/ EmptyCardShown))

\* The load has ended after a run that gave up on a ticker that did not respond.
C8_Witness ==
    /\ ~loading
    /\ pc = "settled"
    /\ \E t \in universe : status[t] = "skipped_timeout"

(***************************************************************************)
(* C9: in a materialized run every ticker of the universe is either in     *)
(* data or counted as skipped, never both and never neither; the skipped   *)
(* count is the number of skipped tickers; and a ticker evaluated with     *)
(* fewer valid factors than the minimum is skipped and not in data.        *)
(***************************************************************************)
DataTickers == {run.data[i].ticker : i \in 1..Len(run.data)}

C9_ScoredOrSkipped ==
    phase \notin {"idle", "evaluating"} =>
        /\ \A t \in universe : (t \in DataTickers) # Skipped(t)
        /\ DataTickers \subseteq universe
        /\ Len(run.data) = Cardinality(DataTickers)
        /\ run.skipped = Cardinality({t \in universe : Skipped(t)})
        /\ Len(run.data) + run.skipped = Cardinality(universe)
        /\ \A t \in universe :
              (snapOf[t] # 0 /\ ~HasMinFactors(Snapshots[snapOf[t]])) =>
                  t \notin DataTickers /\ status[t] = "skipped_factors"

\* A run with a scored ticker, a ticker skipped for too few valid factors and a
\* ticker skipped for another reason.
C9_Witness ==
    /\ phase = "aggregated"
    /\ Len(run.data) >= 1
    /\ run.skipped >= 2
    /\ \E t \in universe : status[t] = "skipped_factors"
    /\ \E t \in universe : status[t] = "skipped_data"

(***************************************************************************)
(* C10: ranking and top-n selection run at most once per run and only when *)
(* every ticker of the universe has finished; no ticker's evaluation is    *)
(* started twice; and a run that is evaluating always reaches aggregation, *)
(* whatever tickers fail or time out.                                      *)
(***************************************************************************)
C10_AggregatesOnceAfterAll ==
    /\ [](/\ aggCount <= 1
          /\ aggCount = 1 => \A t \in universe : status[t] \notin {"pending", "running"}
          /\ \A t \in universe : attempts[t] <= 1
          /\ \A t \in universe : Finished(t) => attempts[t] = 1 \/ status[t] = "skipped_timeout")
    /\ (phase = "evaluating") ~> (aggCount = 1)

\* Aggregation has run after a ticker's snapshot failed and another timed out.
C10_Witness ==
    /\ aggCount = 1
    /\ \E t \in universe : status[t] = "skipped_data" /\ attempts[t] = 1
    /\ \E t \in universe : status[t] = "skipped_timeout"
    /\ \E t \in universe : status[t] = "scored"

(***************************************************************************)
(* C11: a run over an empty universe is aggregated and answered like any   *)
(* other, with empty data and empty top_picks; and once the page has       *)
(* stopped loading it shows the empty-result card exactly when it holds no *)
(* stock record (the response's data is empty, or no response was taken    *)
(* in), never when data holds at least one record.                         *)
(***************************************************************************)
C11_EmptyCardIffNoRecords ==
    /\ (universe = {} /\ aggCount = 1) =>
          /\ run.data = <<>>
          /\ run.top_picks = <<>>
          /\ phase = "returned" =>
                response.kind = "ok" /\ response.body.data = <<>> /\ response.body.top3 = <<>>
    /\ ~loading => (EmptyCardShown <=> Len(data.data) = 0)

\* The page shows the empty-result card for the answered run of an empty universe.
C11_Witness ==
    /\ EmptyCardShown
    /\ data.present
    /\ universe = {}
    /\ aggCount = 1
    /\ phase = "returned"

(***************************************************************************)
(* C12: the tags the page renders for a record are exactly the non-empty,  *)
(* whitespace-trimmed items of the record's delimited Tags string, in the  *)
(* string's left-to-right order, none reordered, dropped, merged or        *)
(* duplicated; and when the string carries the classifier's list, the      *)
(* rendered tags are that list in rule order.                              *)
(***************************************************************************)
Solid(c) == c # "," /\ ~IsSpace(c)

\* Position i of str lies within an item: it holds no comma and, without a comma
\* in between, a solid character stands at or before it and one at or after it.
InItem(str, i) ==
    /\ str[i] # ","
    /\ \E j \in 1..i : Solid(str[j]) /\ \A k \in j..i : str[k] # ","
    /\ \E j \in i..Len(str) : Solid(str[j]) /\ \A k \in i..j : str[k] # ","

ItemStarts(str) == {i \in 1..Len(str) : InItem(str, i) /\ (i = 1 \/ ~InItem(str, i - 1))}
ItemEnds(str) == {i \in 1..Len(str) : InItem(str, i) /\ (i = Len(str) \/ ~InItem(str, i + 1))}

\* The items of str from left to right: its maximal runs of item positions.
Items(str) ==
    [k \in 1..Cardinality(ItemStarts(str)) |->
        SubSeq(str, Kth(ItemStarts(str), k), Kth(ItemEnds(str), k))]

C12_TagsKeepOrder ==
    rendered # None =>
        /\ rendered[1] = Items(tags)
        /\ emitted # None => rendered[1] = emitted[1]

\* Tags rendered "b" before "a" from a four-character string served as is, which
\* then holds an empty item or whitespace to trim.
C12_Witness ==
    /\ rendered = Some(<< <<"b">>, <<"a">> >>)
    /\ emitted = None
    /\ Len(tags) = 4

(***************************************************************************)
(* C13: after a save the server reported successful the page has issued a  *)
(* reload of the trade list, and once no request is in flight the trades   *)
(* the page displays are the server's and the saved trade, while the       *)
(* server holds it, is among them.                                         *)
(***************************************************************************)
C13_SavedTradeShown ==
    /\ lastSaved # 0 => getCount > 1
    /\ (NoRequestInFlight /\ lastSaved \in serverTrades) =>
          trades = serverTrades /\ lastSaved \in trades

(***************************************************************************)
(* C14: the answer of a reload issued earlier is never set over the answer *)
(* of a reload issued later; and once no request is in flight, no request  *)
(* having failed and the reload issued last having been answered, the      *)
(* trades the page displays are the server's.                              *)
(***************************************************************************)
C14_ReloadsInOrder ==
    /\ lastApplied = newestApplied
    /\ (NoRequestInFlight /\ alertMsg = "" /\ newestApplied = getCount) =>
          trades = serverTrades

(***************************************************************************)
(* C15: submitting is true exactly while a POST /api/trades is in flight,  *)
(* so it is false again after every outcome; at most one POST is in       *)
(* flight; and no POST is sent, nor submitting set, for a form whose       *)
(* ticker, price or qty is empty.                                          *)
(***************************************************************************)
C15_SubmittingWhileInFlight ==
    /\ submitting <=> posts # {}
    /\ Cardinality(posts) <= 1
    /\ \A p \in posts : p.body.ticker # "" /\ p.body.price # "" /\ p.body.qty # ""

\* A save is in flight after an earlier one ended in the catch.
C15_Witness ==
    /\ submitting
    /\ alertMsg = "save error"
    /\ \E p \in posts : p.n = 2 /\ p.st = "saved"

(***************************************************************************)
(* C16: when a save ends with success: false or in the catch, ticker,      *)
(* price, qty, note, showForm and trades are as they were and no reload is *)
(* issued; when it ends with success: true the four fields are cleared,    *)
(* the form is closed and one reload is issued.                            *)
(***************************************************************************)
C16_FailedSaveChangesNothing ==
    [][\A p \in posts :
          (\A q \in posts' : q.n # p.n) =>
              IF p.st = "saved"
              THEN /\ form' = EmptyForm
                   /\ showForm' = FALSE
                   /\ getCount' = getCount + 1
                   /\ Cardinality(gets') = Cardinality(gets) + 1
              ELSE UNCHANGED <<form, showForm, trades, gets, getCount>>]_vars

\* After a successful save a second one was refused, the form still open and
\* filled in.
C16_Witness ==
    /\ lastSaved # 0
    /\ alertMsg = "save refused"
    /\ posts = {}
    /\ showForm
    /\ form = [f \in FormFields |-> "v"]

(***************************************************************************)
(* C17: the top-down page's initial load sets all of macro, sectors and    *)
(* report or none: once it has settled, loading is false; if one of the    *)
(* three requests failed, macro and sectors are null and the load set no   *)
(* report; and they are set by the load only when all three succeeded.     *)
(***************************************************************************)
C17_LoadAllOrNothing ==
    /\ loadPc = "awaiting" =>
          topdownLoading /\ macro = Null /\ sectors = Null /\ report = NoReport
    /\ loadPc = "settled" =>
          /\ ~topdownLoading
          /\ AllRejected(fetches) \/ AllFulfilled(fetches)
          /\ AllRejected(fetches) =>
                macro = Null /\ sectors = Null /\ report.source # "latest"
          /\ AllFulfilled(fetches) =>
                macro = "loaded" /\ sectors = "loaded" /\ report.source # Null

\* The load has settled on a failed request while another of the three succeeded.
C17_Witness ==
    /\ loadPc = "settled"
    /\ fetches["/api/sectors"] = "failed"
    /\ fetches["/api/macro?days=5"] = "ok"
    /\ fetches["/api/report/latest"] = "ok"
    /\ macro = Null

(***************************************************************************)
(* C18: at most one /api/report/generate request is in flight; generating  *)
(* is true exactly while one is, so it is false after every outcome; an    *)
(* answer without success or without content, or a thrown error, leaves    *)
(* the report as it was, while success with content sets the generated     *)
(* report; and a generated report is never replaced by the initial load's. *)
(***************************************************************************)
C18_GenerateSingleFlight ==
    /\ [](/\ generating <=> gens # {}
          /\ Cardinality(gens) <= 1)
    /\ [][/\ \A g \in gens :
               (\A h \in gens' : h.n # g.n) =>
                   /\ ~generating'
                   /\ IF g.st = "ok"
                      THEN report' = [source |-> "just generated", n |-> g.n]
                      ELSE report' = report
          /\ report.source = "just generated" => report'.source = "just generated"]_vars

\* The first generation set the report and the second, which failed, left it.
C18_Witness ==
    /\ report = [source |-> "just generated", n |-> 1]
    /\ genCount = 2
    /\ gens = {}
    /\ topdownAlert = "generate failed"
    /\ AllFulfilled(fetches)

====
